---------------------------- MODULE Spec2Model ----------------------------
(***************************************************************************)
(* A model of bunbun's route resolution and live-reconfiguration engine.   *)
(*                                                                         *)
(*   src/src/main.rs    State, run, cache_routes, start_watch              *)
(*   src/src/routes.rs  hop, list, index, resolve_hop, check_route,        *)
(*                      resolve_path                                       *)
(*   src/src/config.rs  Route, RouteGroup, Config, load_file               *)
(*                                                                         *)
(* Three specifications: Spec is the running service (watcher, request     *)
(* workers, file system), SpecPure applies the functions to drawn inputs,  *)
(* SpecHop takes one worker through hop with every outcome of a program.   *)
(*                                                                         *)
(* Strings are sequences of one-character strings, so that tokenising a    *)
(* query and joining its tokens are computed and not assumed.  An          *)
(* Option<T> is a sequence of length at most one: None is << >> and        *)
(* Some(x) is << x >>.                                                     *)
(***************************************************************************)
EXTENDS Integers, Sequences, FiniteSets, TLC

(***************************************************************************)
(* Bounds of the model.                                                    *)
(***************************************************************************)
MaxQueryLen == 5          \* characters in a query (resolver inputs)
MaxArgs == 1              \* largest min_args / max_args bound drawn
MaxGroups == 2            \* groups in a configuration (index builder inputs)
MaxCount == 3             \* largest argument count and bound given to check_route

(***************************************************************************)
(* Option<T>                                                               *)
(***************************************************************************)
None == << >>
Some(x) == << x >>
IsSome(o) == o # << >>
Unwrap(o) == o[1]

(***************************************************************************)
(* Characters, keywords and queries.                                       *)
(***************************************************************************)
Whitespace == {" ", "\t", "\n", "\f", "\r"}
Alphabet == {"g", "d", " ", "\t"}

KwG == << "g" >>
KwD == << "d" >>
KwA == << "a" >>          \* never a key of any index of the model
Keywords == {KwG, KwD}

RECURSIVE SeqsUpTo(_, _)
SeqsUpTo(S, n) ==
  IF n = 0 THEN { << >> }
  ELSE LET shorter == SeqsUpTo(S, n - 1)
       IN  shorter \cup { Append(s, c) : s \in shorter, c \in S }

\* The queries given to the resolver: every text shorter than MaxQueryLen,
\* and the keyword g followed by every such text without a tab, so that a
\* keyword can be followed by two arguments.
Queries ==
  SeqsUpTo(Alphabet, MaxQueryLen - 1)
    \cup { KwG \o t : t \in SeqsUpTo(Alphabet \ {"\t"}, MaxQueryLen - 1) }

(***************************************************************************)
(* config.rs: Route.  hidden and description take no part in resolution    *)
(* and are left out of the record.  A path is a text: the sequence of its  *)
(* literal runs and its handlebars expressions, << "https://g/",           *)
(* "{{query}}" >> for https://g/{{query}}.                                 *)
(***************************************************************************)
RouteTypes == {"External", "Internal"}

Route(route_type, path, min_args, max_args) ==
  [route_type |-> route_type, path |-> path,
   min_args |-> min_args, max_args |-> max_args]

ArgBounds == {None} \cup { Some(n) : n \in 0..MaxArgs }

\* RouteVisitor::visit_map refuses min_args > max_args.
ValidArgRange(min_args, max_args) ==
  ~ (IsSome(min_args) /\ IsSome(max_args)
       /\ Unwrap(min_args) > Unwrap(max_args))

(***************************************************************************)
(* HashMap<String, Route> as a function on its key set.                    *)
(***************************************************************************)
EmptyMap == << >>

get(map, key) == IF key \in DOMAIN map THEN Some(map[key]) ELSE None

insertKeepFirst(map, key, value) ==
  [k \in (DOMAIN map) \cup {key} |-> IF k \in DOMAIN map THEN map[k] ELSE value]

insert(map, key, value) ==
  [k \in (DOMAIN map) \cup {key} |-> IF k = key THEN value ELSE map[k]]

(***************************************************************************)
(* routes.rs: check_route                                                  *)
(***************************************************************************)
check_route_exclusive(route, arg_count) ==
  IF IsSome(route.min_args) /\ arg_count <= Unwrap(route.min_args) THEN FALSE
  ELSE IF IsSome(route.max_args) /\ arg_count >= Unwrap(route.max_args) THEN FALSE
  ELSE TRUE

check_route(route, arg_count) ==
  IF IsSome(route.min_args) /\ arg_count < Unwrap(route.min_args) THEN FALSE
  ELSE IF IsSome(route.max_args) /\ arg_count > Unwrap(route.max_args) THEN FALSE
  ELSE TRUE

(***************************************************************************)
(* str::split_ascii_whitespace and [&str]::join(" ")                       *)
(***************************************************************************)
RECURSIVE split_from(_, _, _)
split_from(s, cur, acc) ==
  IF s = << >> THEN (IF cur = << >> THEN acc ELSE Append(acc, cur))
  ELSE IF Head(s) \in Whitespace
       THEN split_from(Tail(s), << >>,
                       IF cur = << >> THEN acc ELSE Append(acc, cur))
       ELSE split_from(Tail(s), Append(cur, Head(s)), acc)

split_ascii_whitespace(s) == split_from(s, << >>, << >>)

RECURSIVE join(_, _)
join(tokens, sep) ==
  IF tokens = << >> THEN << >>
  ELSE IF Len(tokens) = 1 THEN tokens[1]
  ELSE tokens[1] \o sep \o join(Tail(tokens), sep)

(***************************************************************************)
(* routes.rs: RouteResolution and resolve_hop                              *)
(***************************************************************************)
Unresolved == [kind |-> "Unresolved"]
Resolved(route, args) == [kind |-> "Resolved", route |-> route, args |-> args]

\* The default-route arm of resolve_hop, lines 181-192.
resolve_default_sliced(args, routes, default_route) ==
  IF IsSome(default_route) /\ IsSome(get(routes, Unwrap(default_route)))
       /\ check_route(routes[Unwrap(default_route)], Len(args) - 1)
  THEN Resolved(routes[Unwrap(default_route)], join(Tail(args), << " " >>))
  ELSE Unresolved

resolve_default(args, routes, default_route) ==
  IF IsSome(default_route)
  THEN LET route == get(routes, Unwrap(default_route))
       IN  IF IsSome(route) /\ check_route(Unwrap(route), Len(args))
           THEN Resolved(Unwrap(route), join(args, << " " >>))
           ELSE Unresolved
  ELSE Unresolved

\* The matched-command arm of resolve_hop, lines 171-179: the resolution, or
\* None when the arm falls through.
resolve_matched_unsliced(args, maybe_route) ==
  IF IsSome(maybe_route) /\ check_route(Unwrap(maybe_route), Len(args) - 1)
  THEN Some(Resolved(Unwrap(maybe_route), join(args, << " " >>)))
  ELSE None

\* As resolve_matched, but a route that rejects the remaining count is tried
\* again on all the tokens.
resolve_matched_retry(args, maybe_route) ==
  IF IsSome(maybe_route)
  THEN LET route == Unwrap(maybe_route)
       IN  IF check_route(route, Len(args) - 1)
           THEN Some(Resolved(route, join(Tail(args), << " " >>)))
           ELSE IF check_route(route, Len(args))
                THEN Some(Resolved(route, join(args, << " " >>)))
                ELSE None
  ELSE None

resolve_matched(args, maybe_route) ==
  IF IsSome(maybe_route)
  THEN LET route == Unwrap(maybe_route)
           rest == join(IF args = << >> THEN << >> ELSE Tail(args), << " " >>)
           arg_count == Len(args) - 1
       IN  IF check_route(route, arg_count)
           THEN Some(Resolved(route, rest))
           ELSE None
  ELSE None

\* As resolve_hop, but an empty query goes on to the default route.
resolve_hop_default_on_empty(query, routes, default_route) ==
  LET split_args == split_ascii_whitespace(query)
      maybe_route == IF split_args = << >> THEN None
                     ELSE get(routes, split_args[1])
      matched == resolve_matched(split_args, maybe_route)
  IN  IF IsSome(matched) THEN Unwrap(matched)
      ELSE resolve_default(split_args, routes, default_route)

resolve_hop(query, routes, default_route) ==
  LET split_args == split_ascii_whitespace(query)
  IN  IF split_args = << >> THEN Unresolved
      ELSE LET maybe_route == get(routes, split_args[1])
               matched == resolve_matched(split_args, maybe_route)
           IN  IF IsSome(matched) THEN Unwrap(matched)
               ELSE resolve_default(split_args, routes, default_route)

(***************************************************************************)
(* main.rs: cache_routes.  A group's routes are a HashMap, iterated in an  *)
(* arbitrary order; CHOOSE fixes one.                                      *)
(***************************************************************************)
RECURSIVE insert_group(_, _, _)
insert_group(mapping, group_routes, keys) ==
  IF keys = {} THEN mapping
  ELSE LET kw == CHOOSE k \in keys : TRUE
       IN  insert_group(insert(mapping, kw, group_routes[kw]),
                        group_routes, keys \ {kw})

RECURSIVE cache_from(_, _)
cache_from(mapping, groups) ==
  IF groups = << >> THEN mapping
  ELSE cache_from(insert_group(mapping, Head(groups).routes,
                               DOMAIN Head(groups).routes),
                  Tail(groups))

cache_routes(groups) == cache_from(EmptyMap, groups)

(***************************************************************************)
(* config.rs: the configuration documents the model draws from.  A raw     *)
(* route is what the document says; Route::deserialize classifies it by a  *)
(* disk probe (get_route_type) and refuses min_args > max_args.            *)
(***************************************************************************)
LARGE_FILE_SIZE_THRESHOLD == 100000000

ExistingPaths == { << "/bin/x" >> }

get_route_type(path) ==
  IF path \in ExistingPaths THEN "Internal" ELSE "External"

RawRoute(path, min_args, max_args) ==
  [path |-> path, min_args |-> min_args, max_args |-> max_args]

RouteGroup(name, routes) == [name |-> name, routes |-> routes]

Config(bind_address, public_address, default_route, groups) ==
  [bind_address |-> bind_address, public_address |-> public_address,
   default_route |-> default_route, groups |-> groups]

DocIds == {"A", "B", "R"}
ContentKinds == DocIds \cup {"garbage", "binary"}

\* One group, one external route; the default route names a keyword that no
\* group defines.
RawDocA ==
  Config("0.0.0.0:8080", "a.example", Some(KwA),
         << RouteGroup("ga", (KwG :> RawRoute(<< "https://a/", "{{query}}" >>, None, None))) >>)

\* Two groups that share the keyword g; d is a local program that needs an
\* argument; g is the default route.
RawDocB ==
  Config("0.0.0.0:8080", "b.example", Some(KwG),
         << RouteGroup("gb1", (KwG :> RawRoute(<< "https://b1/", "{{query}}" >>, None, None))
                              @@ (KwD :> RawRoute(<< "/bin/x" >>, Some(1), None))),
            RouteGroup("gb2", (KwG :> RawRoute(<< "https://b2/", "{{query}}" >>, None, None))) >>)

\* A document with a route whose range is min_args = 1 > max_args = 0.
RawDocR ==
  Config("0.0.0.0:8080", "r.example", Some(KwD),
         << RouteGroup("gr", (KwD :> RawRoute(<< "https://r/", "{{query}}" >>, Some(1), Some(0)))) >>)

RawDoc(d) == CASE d = "A" -> RawDocA [] d = "B" -> RawDocB [] d = "R" -> RawDocR

\* RouteVisitor::visit_map / visit_str: the Route of a raw route.
deserialize_route(raw) ==
  Route(get_route_type(raw.path), raw.path, raw.min_args, raw.max_args)

deserialize_group(g) ==
  RouteGroup(g.name, [kw \in DOMAIN g.routes |-> deserialize_route(g.routes[kw])])

\* A deserializer without the range check of visit_map.
RawRouteOk_unchecked(raw) == TRUE

RawRouteOk(raw) == ValidArgRange(raw.min_args, raw.max_args)

Ok(v) == [ok |-> TRUE, val |-> v]
Err(e) == [ok |-> FALSE, err |-> e]
\* An error that carries a value: ConfigTooLarge(u64), CustomProgram(String).
ErrWith(e, payload) == [ok |-> FALSE, err |-> e, payload |-> payload]

\* serde_yaml::from_str::<Config> on the text of a whole document.
parse_document(d) ==
  IF d \notin DocIds THEN Err("Parse")
  ELSE LET raw == RawDoc(d)
       IN  IF \A i \in DOMAIN raw.groups :
                \A kw \in DOMAIN raw.groups[i].routes :
                   RawRouteOk(raw.groups[i].routes[kw])
           THEN Ok(Config(raw.bind_address, raw.public_address, raw.default_route,
                          [i \in DOMAIN raw.groups |-> deserialize_group(raw.groups[i])]))
           ELSE Err("Parse")

ValidDocIds == { d \in DocIds : parse_document(d).ok }

(***************************************************************************)
(* Files.  A file is its byte length and the kind of its content; a handle *)
(* is the file it was opened on, its cursor, and whether that file is      *)
(* still the one at the watched path.  File::try_clone shares the cursor.  *)
(***************************************************************************)
Absent == [len |-> 0, kind |-> "absent"]
EmptyFile == [len |-> 0, kind |-> "empty"]
\* The files put at the path: the document that fails in its ranges stands
\* for every text that serde_yaml refuses.
Files ==
  {EmptyFile}
    \cup { [len |-> 1, kind |-> k] : k \in ContentKinds \ {"garbage"} }
    \cup { [len |-> LARGE_FILE_SIZE_THRESHOLD + 1, kind |-> "B"] }

\* config.rs load_file, up to the read: the error it returns before reading,
\* or None.
size_check_ignoring_large(file_size, large) ==
  IF file_size > LARGE_FILE_SIZE_THRESHOLD
  THEN Some(ErrWith("ConfigTooLarge", file_size))
  ELSE IF file_size = 0 THEN Some(Err("ZeroByteConfig"))
  ELSE None

size_check(file_size, large) ==
  IF file_size > LARGE_FILE_SIZE_THRESHOLD /\ ~ large
  THEN Some(ErrWith("ConfigTooLarge", file_size))
  ELSE IF file_size = 0 THEN Some(Err("ZeroByteConfig"))
  ELSE None

\* What a file can be rewritten to in place under a handle: any file, and
\* files that reach beyond the handle's cursor, which leave a tail for the
\* next read: a valid document (after blank lines, say) and a file that
\* read from its start is not UTF-8.
LongerKinds == {"A", "B", "binary"}
WrittenFiles(h) ==
  Files \cup { [len |-> h.pos + 1, kind |-> k] : k \in LongerKinds }

\* File::try_clone: another descriptor on the same open file, or an error
\* when the process can get no descriptor.
try_clone(h) == { Ok(h), Err("Io") }

\* config.rs 325, read_to_string: a loop of read calls on the descriptor,
\* from the cursor, until one returns nothing.  The text a read call
\* returns for a handle: the whole file when the cursor is at its start, a
\* tail of it otherwise.  NoText when the cursor is at or past the end: the
\* call returns nothing and the loop is over.
NoText == "none"
TailText == "tail"
TornText == "torn"

read(h) ==
  IF h.pos >= h.file.len THEN NoText
  ELSE IF h.pos = 0 THEN h.file.kind
  ELSE TailText

\* The text gathered so far, once the file has been written in place under
\* the loop: bytes of two files.
tear(text) == IF text = NoText THEN NoText ELSE TornText

\* config.rs 325 and 328: the bytes gathered are checked to be UTF-8 and
\* the text is parsed.  The empty text is no Config; a whole file is its
\* document or is not UTF-8; for a tail and for bytes of two files, whether
\* they are UTF-8 and what they parse to depends on bytes the model does not
\* hold: any error of the two, or any valid document.
from_str(text) ==
  IF text = NoText THEN { Err("Parse") }
  ELSE IF text \in {TailText, TornText}
       THEN { Err("Io"), Err("Parse") }
              \cup { parse_document(d) : d \in ValidDocIds }
       ELSE IF text = "binary" THEN { Err("Io") }
            ELSE { parse_document(text) }

\* config.rs load_file from the read on (lines 324-328), for a handle on a
\* file that nothing writes while it is read.
read_to_string(h) == from_str(read(h))

\* The cursor after the read: at the end of the file, or where it was when
\* that is further.
cursor_after_read(h) ==
  IF h.pos >= h.file.len THEN h.pos ELSE h.file.len

\* The results load_file can return for a handle on a file that nothing
\* writes while it is loaded: the length decides first, then the read.
load_file(h, large) ==
  LET early == size_check(h.file.len, large)
  IN  IF IsSome(early) THEN { Unwrap(early) } ELSE read_to_string(h)

\* The cursor after load_file: an early return leaves it where it was.
cursor_after(h, large) ==
  IF IsSome(size_check(h.file.len, large)) THEN h.pos ELSE cursor_after_read(h)

\* config.rs load_custom_file: a fresh handle on the file at the path, or
\* InvalidConfigPath for whatever error the open ends in: no file at the
\* path, no permission to read it, no descriptor left.
load_custom_file(at_path) ==
  { Err("InvalidConfigPath") }
    \cup (IF at_path = Absent THEN {}
          ELSE { Ok([file |-> at_path, pos |-> 0, live |-> TRUE]) })

(***************************************************************************)
(* main.rs: State, as run() builds it from a loaded configuration, and the *)
(* four assignments of the reload callback.                                *)
(***************************************************************************)
NewState(conf) ==
  [public_address |-> conf.public_address,
   default_route |-> conf.default_route,
   routes |-> cache_routes(conf.groups),
   groups |-> conf.groups]

set_public_address(st, conf) == [st EXCEPT !.public_address = conf.public_address]

set_default_route_stale(st, conf) == st
set_default_route(st, conf) == [st EXCEPT !.default_route = conf.default_route]

set_routes_stale(st, conf) == st
set_routes(st, conf) == [st EXCEPT !.routes = cache_routes(conf.groups)]

set_groups(st, conf) == [st EXCEPT !.groups = conf.groups]

\* The Err arm of the callback leaves the state alone.
on_reload_error_reset(st) ==
  [st EXCEPT !.default_route = None, !.routes = EmptyMap, !.groups = << >>]
on_reload_error(st) == st

(***************************************************************************)
(* The State and its readers.  main.rs keeps the State in an RwLock, and   *)
(* start_watch writes it in place under the write guard; nothing in the    *)
(* sources reads through that lock.  The handlers of routes.rs take a      *)
(* State from an ArcSwap with load(), and nothing in the sources stores    *)
(* into it.  What fills the ArcSwap is taken from the specification of the *)
(* Snapshot Store and the Reload Trigger (sections 4.2 and 4.5): a         *)
(* snapshot is published at startup and after every successful reload, as  *)
(* a whole value that is not written again.                                *)
(***************************************************************************)
Unlocked == [writer |-> FALSE, poisoned |-> FALSE]

\* A thread panics while it holds the write guard: unwinding drops the
\* guard and leaves the lock poisoned.
poison(l) == [l EXCEPT !.writer = FALSE, !.poisoned = TRUE]

\* RwLock::write returns once no guard is out; the callback, which runs on
\* one thread, is the only code that takes a guard of this lock.
can_write(l) == ~ l.writer

\* Snapshot Store, publish(snapshot): the snapshot becomes the current one;
\* the earlier ones stay as they are for whoever holds them.
publish(stored, snapshot) == Append(stored, snapshot)

\* ArcSwap::load: the snapshot stored last.
load(stored) == stored[Len(stored)]

(***************************************************************************)
(* routes.rs: what hop does with a resolution.  Texts are sequences of     *)
(* strings: characters, literal runs and handlebars expressions.           *)
(***************************************************************************)
\* str::split(' '): the pieces between the separators, empty pieces kept.
RECURSIVE split_pieces(_, _, _, _)
split_pieces(s, sep, cur, acc) ==
  IF s = << >> THEN Append(acc, cur)
  ELSE IF Head(s) = sep THEN split_pieces(Tail(s), sep, << >>, Append(acc, cur))
  ELSE split_pieces(Tail(s), sep, Append(cur, Head(s)), acc)

split(s, sep) == split_pieces(s, sep, << >>, << >>)

\* routes.rs lines 19-28, over the characters of the model: the C0 controls
\* and the nine characters added to them.  "\\x60" stands for the back
\* quote (U+0060), which a TLA+ string cannot hold.
FRAGMENT_ENCODE_SET ==
  {"\t", "\n", "\f", "\r", " ", "\"", "<", ">", "\\x60", "+", "&", "#", "'"}

percent_code(c) ==
  CASE c = "\t" -> "%09" [] c = "\n" -> "%0A" [] c = "\f" -> "%0C"
    [] c = "\r" -> "%0D" [] c = " " -> "%20" [] c = "\"" -> "%22"
    [] c = "<" -> "%3C" [] c = ">" -> "%3E" [] c = "\\x60" -> "%60"
    [] c = "+" -> "%2B" [] c = "&" -> "%26" [] c = "#" -> "%23"
    [] c = "'" -> "%27"

utf8_percent_encode(s, set) ==
  [i \in 1..Len(s) |-> IF s[i] \in set THEN percent_code(s[i]) ELSE s[i]]

\* handlebars: the default escape function, applied to a rendered value.
html_escape(s) ==
  [i \in 1..Len(s) |->
     CASE s[i] = "&" -> "&amp;" [] s[i] = "<" -> "&lt;"
       [] s[i] = ">" -> "&gt;" [] s[i] = "\"" -> "&quot;"
       [] OTHER -> s[i]]

\* The pieces of a template: an expression starts with {{; the one
\* expression that TemplateArgs of template_args::query can fill is
\* {{query}}; an expression that is not closed does not parse.
IsExpression(piece) == piece \in {"{{query}}", "{{other}}", "{{"}

RECURSIVE render_pieces(_, _, _)
render_pieces(template, value, acc) ==
  IF template = << >> THEN Ok(acc)
  ELSE LET piece == Head(template)
       IN  IF piece = "{{query}}"
           THEN render_pieces(Tail(template), value, acc \o html_escape(value))
           ELSE IF IsExpression(piece) THEN Err("Render")
           ELSE render_pieces(Tail(template), value, Append(acc, piece))

\* Handlebars::render_template in strict mode with the one value query.
render_template(template, value) == render_pieces(template, value, << >>)

\* routes.rs HopAction
Redirect(text) == [kind |-> "Redirect", text |-> text]
Body(text) == [kind |-> "Body", text |-> text]

(***************************************************************************)
(* The output of a child process.  Standard output is the JSON document    *)
(* its bytes spell, if any: an object is the sequence of its members as    *)
(* written, so that a key given twice or two keys are two members.         *)
(***************************************************************************)
JString(text) == [type |-> "string", text |-> text]
JNumber == [type |-> "number"]
Member(key, value) == [key |-> key, value |-> value]
JObject(members) == [json |-> "object", members |-> members]
JOther == [json |-> "string"]        \* a document that is not an object
NotJson == [json |-> "invalid"]      \* no JSON document, invalid UTF-8 included

TextA == << "a" >>
TextTemplate == << "https://r/", "{{query}}" >>
TextUnclosed == << "https://r/", "{{" >>
TextLineFeed == << "https://r/", "\n" >>

Stdouts ==
  { JObject(<< Member("redirect", JString(TextA)) >>),
    JObject(<< Member("redirect", JString(TextTemplate)) >>),
    JObject(<< Member("redirect", JString(TextUnclosed)) >>),
    JObject(<< Member("redirect", JString(TextLineFeed)) >>),
    JObject(<< Member("body", JString(TextA)) >>),
    JObject(<< Member("body", JString(TextA)), Member("redirect", JString(TextA)) >>),
    JObject(<< Member("redirect", JString(TextA)), Member("redirect", JString(TextA)) >>),
    JObject(<< >>),
    JObject(<< Member("other", JString(TextA)) >>),
    JObject(<< Member("body", JNumber) >>),
    JOther,
    NotJson }

\* Standard error as bytes; "\\xFF" stands for a byte that is not UTF-8.
Stderrs == { << >>, << "e" >>, << "e", "\\xFF" >> }

\* String::from_utf8_lossy
from_utf8_lossy(bytes) ==
  [i \in 1..Len(bytes) |-> IF bytes[i] = "\\xFF" THEN "\\uFFFD" ELSE bytes[i]]

\* serde_json::from_slice::<HopAction>: an externally tagged enum of two
\* newtype variants, renamed to snake_case, is an object of one member
\* whose key names the variant and whose value is a string.
from_slice_first_member(doc) ==
  IF doc.json = "object" /\ Len(doc.members) >= 1
       /\ doc.members[1].key \in {"redirect", "body"}
       /\ doc.members[1].value.type = "string"
  THEN Ok(IF doc.members[1].key = "redirect"
          THEN Redirect(doc.members[1].value.text)
          ELSE Body(doc.members[1].value.text))
  ELSE Err("JsonParse")

from_slice(doc) ==
  IF doc.json = "object" /\ Len(doc.members) = 1
       /\ doc.members[1].key \in {"redirect", "body"}
       /\ doc.members[1].value.type = "string"
  THEN Ok(IF doc.members[1].key = "redirect"
          THEN Redirect(doc.members[1].value.text)
          ELSE Body(doc.members[1].value.text))
  ELSE Err("JsonParse")

\* resolve_path, lines 229-238: what is made of a finished child.
output_result_stdout_first(status, stdout, stderr) ==
  IF from_slice(stdout).ok THEN from_slice(stdout)
  ELSE IF status = 0 THEN from_slice(stdout)
  ELSE ErrWith("CustomProgram", from_utf8_lossy(stderr))

output_result(status, stdout, stderr) ==
  IF status = 0 THEN from_slice(stdout)
  ELSE ErrWith("CustomProgram", from_utf8_lossy(stderr))

(***************************************************************************)
(* What the operating system does with one call of resolve_path: whether   *)
(* the path canonicalizes and to what, whether the program can be started, *)
(* and what the child leaves behind.                                       *)
(***************************************************************************)
ExitStatuses == {0, 1}

\* What Path::canonicalize can make of a route's path: the path itself, or
\* another one when a component is a symbolic link or the path is relative.
CanonicalPaths == { << "/bin/x" >>, << "/usr/bin/x" >> }

Run(canonicalize, canonical, spawn, status, stdout, stderr) ==
  [canonicalize |-> canonicalize, canonical |-> canonical, spawn |-> spawn,
   status |-> status, stdout |-> stdout, stderr |-> stderr]

Runs ==
  { Run(e, << >>, "none", 0, NotJson, << >>) : e \in {"NotFound", "PermissionDenied"} }
    \cup { Run("ok", c, "PermissionDenied", 0, NotJson, << >>) : c \in CanonicalPaths }
    \cup { Run("ok", c, "ok", st, o, e) :
             c \in CanonicalPaths, st \in ExitStatuses, o \in Stdouts, e \in Stderrs }

\* No call of resolve_path.
NoRun == Run("none", << >>, "none", 0, NotJson, << >>)

Child(program, argv) == [program |-> program, argv |-> argv]

\* routes.rs resolve_path: the result, and the child that was run if one was.
resolve_path_uncanonicalized(path, args, run) ==
  IF run.spawn = "PermissionDenied"
  THEN [result |-> ErrWith("Io", run.spawn), child |-> None]
  ELSE [result |-> output_result(run.status, run.stdout, run.stderr),
        child |-> Some(Child(path, split(args, " ")))]

resolve_path(path, args, run) ==
  IF run.canonicalize # "ok"
  THEN [result |-> ErrWith("Io", run.canonicalize), child |-> None]
  ELSE IF run.spawn # "ok"
       THEN [result |-> ErrWith("Io", run.spawn), child |-> None]
       ELSE [result |-> output_result(run.status, run.stdout, run.stderr),
             child |-> Some(Child(run.canonical, split(args, " ")))]

\* hop, lines 93-104.
resolved_template(route, args, run) ==
  IF route.route_type = "Internal" THEN resolve_path(route.path, args, run)
  ELSE [result |-> Ok(Redirect(route.path)), child |-> None]

Response(status, location, body) ==
  [status |-> status, location |-> location, body |-> body]

\* hop, lines 133-135.
not_found == Response(404, None, << "not found\n" >>)

\* http HeaderValue, as Response::builder makes one of the text given to
\* header(): a control character other than the tab is refused.  In a text
\* a control character is a piece of its own.
header_value(text) ==
  IF \E i \in 1..Len(text) : text[i] \in {"\n", "\f", "\r"}
  THEN Err("InvalidHeaderValue")
  ELSE Ok(text)

\* Handlebars::render of a template built into the binary (index, list,
\* opensearch).  The templates are not among the sources, so whether one
\* renders with the data it is given is drawn.
render(name) == { Ok(<< name >>), Err("Render") }

\* index, list and opensearch: map and map_err on what render returned.
page(rendered) ==
  IF rendered.ok THEN Response(200, None, rendered.val)
  ELSE Response(500, None, << >>)

\* As respond, but an error of resolve_path is unwrapped: the handler
\* panics and no response is built.
respond_unwrapping(result, args) ==
  IF ~ result.ok THEN Response(0, None, << >>)
  ELSE IF result.val.kind = "Body" THEN Response(200, None, result.val.text)
  ELSE LET path == result.val.text
           rendered == render_template(path,
                          utf8_percent_encode(args, FRAGMENT_ENCODE_SET))
       IN  IF ~ rendered.ok THEN Response(500, None, << >>)
           ELSE IF ~ header_value(path).ok THEN Response(500, None, << >>)
           ELSE Response(302, Some(path), rendered.val)

\* hop, lines 106-131 and 137: a template that does not render (line 116)
\* and a builder that refuses the header (line 137) are both answered by
\* the bare status 500.
respond(result, args) ==
  IF ~ result.ok THEN Response(500, None, << "Something went wrong :(\n" >>)
  ELSE IF result.val.kind = "Body" THEN Response(200, None, result.val.text)
  ELSE LET path == result.val.text
           rendered == render_template(path,
                          utf8_percent_encode(args, FRAGMENT_ENCODE_SET))
       IN  IF ~ rendered.ok THEN Response(500, None, << >>)
           ELSE IF ~ header_value(path).ok THEN Response(500, None, << >>)
           ELSE Response(302, Some(path), rendered.val)

(***************************************************************************)
(* The running service: one watcher thread (the hotwatch callback of       *)
(* start_watch), request workers (the handlers of routes.rs) and the       *)
(* file system that the watcher observes.                                  *)
(*                                                                         *)
(* run() builds the State and start_watch writes it through the write      *)
(* guard of its RwLock; a handler loads the snapshot published last        *)
(* (routes.rs line 89) and reads every field from what it loaded.          *)
(***************************************************************************)
MaxEvents == 2            \* file-system changes in a run

\* A load takes no lock, so handlers do not act on one another: one worker
\* that is sent every kind of request stands for each of them.
Workers == {"w1"}

HopQueries == { << "d" >>, << "d", " ", "g" >> }
NoReq == [kind |-> "none", query |-> << >>]
NoObs == [public_address |-> None, default_route |-> None,
          routes |-> None, groups |-> None]
NoConf == Config("", "", None, << >>)
NoState == [public_address |-> "", default_route |-> None,
            routes |-> EmptyMap, groups |-> << >>]

VARIABLES
  state,        \* the State inside the RwLock, as the callback has written it
  lock,         \* the RwLock: whether the write guard is out, and the poison flag
  disk,         \* the file at the watched path, or Absent
  handle,       \* the watcher's File: the file it is open on and its cursor
  large_config, \* the --large-config option
  events,       \* events the watcher has yet to deliver to the callback
  nchanges,     \* file-system changes so far
  wpc,          \* the callback's position
  wbuf,         \* what read_to_string has gathered, while its loop runs
  wconf,        \* the Config the callback is installing
  wres,         \* the reload: "none", the error read_config returned, and
                \* "Ok" or "Err" once the callback has returned
  preState,     \* the State when the callback was entered
  published,    \* the snapshots published so far, in order: the last is current
  pc,           \* each worker's position in its handler
  req,          \* each worker's request
  obs,          \* what the handler has read of the State, field by field
  snap,         \* the State the worker loaded
  res,          \* a hop's resolution
  ppc,          \* position of the function under test
  in_routes, in_default, in_query, in_groups,   \* inputs of the function under test
  out,          \* its result
  run,          \* what the operating system did with hop's resolve_path
  child,        \* the child process a hop has run, if any
  hres,         \* hop's resolved_template
  response,     \* hop's response
  failed        \* whether an earlier request of this run got a failure response

sysVars == << state, lock, disk, handle, large_config, events, nchanges, wpc,
              wbuf, wconf, wres, preState, published, pc, req, obs, snap, res >>
pureVars == << ppc, in_routes, in_default, in_query, in_groups, out >>
hopVars == << run, child, hres, response, failed >>
vars == << sysVars, pureVars, hopVars >>

PureIdle ==
  /\ ppc = "off"
  /\ in_routes = EmptyMap
  /\ in_default = None
  /\ in_query = << >>
  /\ in_groups = << >>
  /\ out = "none"

NoResult == [ok |-> FALSE, err |-> "none"]
NoResponse == [status |-> 0, location |-> << >>, body |-> << >>]

HopIdle ==
  /\ run = NoRun
  /\ child = << >>
  /\ hres = NoResult
  /\ response = NoResponse
  /\ failed = FALSE

\* run(), lines 60-74: the configuration was found and loaded (a failure
\* ends the process), with or without --large-config; the State is built
\* from it and the watch started.  The read has left the shared cursor at
\* the end of the file.
SysInitFrom(d, large) ==
  LET file == [len |-> 1, kind |-> d]
      conf == parse_document(d).val
  IN  /\ disk = file
      /\ handle = [file |-> file, pos |-> cursor_after([file |-> file, pos |-> 0], large),
                   live |-> TRUE]
      /\ large_config = large
      /\ state = NewState(conf)
      /\ published = publish(<< >>, NewState(conf))
      /\ lock = Unlocked
      /\ events = << >>
      /\ nchanges = 0
      /\ wpc = "idle"
      /\ wbuf = NoText
      /\ wconf = NoConf
      /\ wres = "none"
      /\ preState = NoState
      /\ pc = [w \in Workers |-> "idle"]
      /\ req = [w \in Workers |-> NoReq]
      /\ obs = [w \in Workers |-> NoObs]
      /\ snap = [w \in Workers |-> NoState]
      /\ res = [w \in Workers |-> Unresolved]

Init ==
  /\ \E d \in ValidDocIds, large \in BOOLEAN : SysInitFrom(d, large)
  /\ PureIdle
  /\ HopIdle

(***************************************************************************)
(* The file system.                                                        *)
(***************************************************************************)
\* The file at the path is rewritten in place, to any length: notify
\* reports a Write.  The watcher's handle, if it is open on that file, keeps
\* its cursor.
FsWrite ==
  /\ nchanges < MaxEvents
  /\ disk # Absent
  /\ \E f \in (IF handle.live THEN WrittenFiles(handle) ELSE Files) :
       /\ disk' = f
       /\ handle' = IF handle.live THEN [handle EXCEPT !.file = f] ELSE handle
  /\ wbuf' = IF handle.live THEN tear(wbuf) ELSE wbuf
  /\ events' = Append(events, "Write")
  /\ nchanges' = nchanges + 1
  /\ UNCHANGED << state, lock, large_config, wpc, wconf, wres, preState,
                  published, pc, req, obs, snap, res, pureVars, hopVars >>

\* A new file is put at the path (created, or renamed over the old one):
\* notify reports a Create.  The watcher's handle stays on the old file.
FsCreate ==
  /\ nchanges < MaxEvents
  /\ \E f \in Files : disk' = f
  /\ handle' = [handle EXCEPT !.live = FALSE]
  /\ events' = Append(events, "Create")
  /\ nchanges' = nchanges + 1
  /\ UNCHANGED << state, lock, large_config, wbuf, wpc, wconf, wres, preState,
                  published, pc, req, obs, snap, res, pureVars, hopVars >>

\* The file at the path is removed: notify reports a Remove.
FsRemove ==
  /\ nchanges < MaxEvents
  /\ disk # Absent
  /\ disk' = Absent
  /\ handle' = [handle EXCEPT !.live = FALSE]
  /\ events' = Append(events, "Remove")
  /\ nchanges' = nchanges + 1
  /\ UNCHANGED << state, lock, large_config, wbuf, wpc, wconf, wres, preState,
                  published, pc, req, obs, snap, res, pureVars, hopVars >>

(***************************************************************************)
(* main.rs start_watch: the callback, lines 185-215.                       *)
(***************************************************************************)
\* Lines 185-191 and 213: the event is delivered.  On a Create the file is
\* reopened, and the expect() panics when the open fails, for whatever
\* reason: the watcher thread ends, before it has touched the lock.  Any
\* event other than a Write or a Create is ignored.
W_Begin ==
  /\ wpc = "idle"
  /\ events # << >>
  /\ events' = Tail(events)
  /\ preState' = state
  /\ wres' = "none"
  /\ LET e == Head(events)
     IN  CASE e = "Create" ->
                 \E opened \in load_custom_file(disk) :
                    IF opened.ok
                    THEN handle' = opened.val /\ wpc' = "lock"
                    ELSE handle' = handle /\ wpc' = "dead"
           [] e = "Write" ->
                 handle' = handle /\ wpc' = "lock"
           [] OTHER ->
                 handle' = handle /\ wpc' = "idle"
  /\ UNCHANGED << state, lock, disk, large_config, wbuf, nchanges, wconf, published,
                  pc, req, obs, snap, res, pureVars, hopVars >>

\* Lines 195-198: state.write() returns once no guard is out.
W_Lock ==
  /\ wpc = "lock"
  /\ can_write(lock)
  /\ lock' = [lock EXCEPT !.writer = TRUE]
  /\ wpc' = "measure"
  /\ UNCHANGED << state, disk, handle, large_config, wbuf, events, nchanges, wconf,
                  wres, preState, published, pc, req, obs, snap, res, pureVars, hopVars >>

\* Lines 199-202 and config.rs 313-322, under the write guard: the handle is
\* cloned and the length of the file is taken and checked.  When the handle
\* cannot be cloned the expect() panics: the watcher thread ends and the
\* lock is left poisoned.
W_Measure ==
  /\ wpc = "measure"
  /\ \E c \in try_clone(handle) :
       IF ~ c.ok
       THEN /\ wpc' = "dead"
            /\ lock' = poison(lock)
            /\ UNCHANGED << state, wres >>
       ELSE LET early == size_check(c.val.file.len, large_config)
            IN  /\ lock' = lock
                /\ IF IsSome(early)
                   THEN /\ state' = on_reload_error(state)
                        /\ wres' = Unwrap(early).err
                        /\ wpc' = "unlock"
                   ELSE /\ wpc' = "read"
                        /\ UNCHANGED << state, wres >>
  /\ UNCHANGED << disk, handle, large_config, wbuf, events, nchanges, wconf, preState,
                  published, pc, req, obs, snap, res, pureVars, hopVars >>

\* config.rs 325, the first read call of the loop, on the file as it is by
\* now.  A call that returns nothing ends the loop: the empty text does not
\* parse and the Err arm is taken (main.rs 210).  Otherwise the cursor is
\* behind what was read and the loop goes on.
W_Read ==
  /\ wpc = "read"
  /\ handle' = [handle EXCEPT !.pos = cursor_after_read(handle)]
  /\ LET text == read(handle)
     IN  IF text = NoText
         THEN \E r \in from_str(text) :
                 /\ state' = on_reload_error(state)
                 /\ wres' = r.err
                 /\ wpc' = "unlock"
                 /\ wbuf' = wbuf
         ELSE /\ wbuf' = text
              /\ wpc' = "read_rest"
              /\ UNCHANGED << state, wres >>
  /\ UNCHANGED << lock, disk, large_config, events, nchanges, wconf, preState,
                  published, pc, req, obs, snap, res, pureVars, hopVars >>

\* config.rs 325-328 and main.rs 203 and 210: the read calls that follow,
\* up to the one that returns nothing, on the file as it is by now, and the
\* parse of all that was gathered.  No lock is held on the file: when it
\* was written since the first call, the text is bytes of two files.
W_ReadRest ==
  /\ wpc = "read_rest"
  /\ handle' = [handle EXCEPT !.pos = cursor_after_read(handle)]
  /\ wbuf' = NoText
  /\ \E r \in from_str(wbuf) :
       IF r.ok
       THEN /\ wconf' = r.val
            /\ wpc' = "set_public_address"
            /\ UNCHANGED << state, wres >>
       ELSE /\ state' = on_reload_error(state)
            /\ wres' = r.err
            /\ wpc' = "unlock"
            /\ UNCHANGED wconf
  /\ UNCHANGED << lock, disk, large_config, events, nchanges, preState,
                  published, pc, req, obs, snap, res, pureVars, hopVars >>

\* Lines 204-207: the four assignments, one after the other.
W_Set ==
  /\ \/ /\ wpc = "set_public_address"
        /\ state' = set_public_address(state, wconf)
        /\ wpc' = "set_default_route"
     \/ /\ wpc = "set_default_route"
        /\ state' = set_default_route(state, wconf)
        /\ wpc' = "set_routes"
     \/ /\ wpc = "set_routes"
        /\ state' = set_routes(state, wconf)
        /\ wpc' = "set_groups"
     \/ /\ wpc = "set_groups"
        /\ state' = set_groups(state, wconf)
        /\ wpc' = "publish"
  /\ UNCHANGED << lock, disk, handle, large_config, wbuf, events, nchanges, wconf,
                  wres, preState, published, pc, req, obs, snap, res, pureVars, hopVars >>

\* Reload Trigger, on success: the State the reload has built is published.
W_Publish ==
  /\ wpc = "publish"
  /\ published' = publish(published, state)
  /\ wpc' = "unlock"
  /\ UNCHANGED << state, lock, disk, handle, large_config, wbuf, events, nchanges,
                  wconf, wres, preState, pc, req, obs, snap, res,
                  pureVars, hopVars >>

\* Lines 208-212: the arm has logged and the write guard is dropped.
W_Unlock ==
  /\ wpc = "unlock"
  /\ wres' = IF wres = "none" THEN "Ok" ELSE "Err"
  /\ lock' = [lock EXCEPT !.writer = FALSE]
  /\ wconf' = NoConf
  /\ wpc' = "idle"
  /\ UNCHANGED << state, disk, handle, large_config, wbuf, events, nchanges,
                  preState, published, pc, req, obs, snap, res, pureVars, hopVars >>

(***************************************************************************)
(* routes.rs: the handlers, as readers of the State: what each loads and   *)
(* which fields it reads of what it loaded.  hop reads routes and          *)
(* default_route (resolve_hop, lines 160 and 182), list reads groups,      *)
(* index and opensearch read public_address.  The response a hop builds    *)
(* from its resolution is followed under SpecHop, the pages of the others  *)
(* under SpecPure.                                                         *)
(***************************************************************************)
Holding == {"resolve", "exec", "done"}

\* hop, lines 84-89: a request arrives with its query and the handler
\* takes the State: data.load().
Load(w) ==
  /\ pc[w] = "idle"
  /\ \E q \in HopQueries :
       req' = [req EXCEPT ![w] = [kind |-> "hop", query |-> q]]
  /\ snap' = [snap EXCEPT ![w] = load(published)]
  /\ pc' = [pc EXCEPT ![w] = "resolve"]
  /\ UNCHANGED << state, lock, disk, handle, large_config, wbuf, events, nchanges,
                  wpc, wconf, wres, preState, published, obs, res,
                  pureVars, hopVars >>

\* A hop that goes back to the store for the default route instead of
\* reading it from the State it loaded at line 89.
Resolve_reloading(w) ==
  /\ pc[w] = "resolve"
  /\ LET again == load(published)
         r == resolve_hop(req[w].query, snap[w].routes, again.default_route)
     IN  /\ obs' = [obs EXCEPT ![w].routes = Some(snap[w].routes),
                               ![w].default_route = Some(again.default_route)]
         /\ res' = [res EXCEPT ![w] = r]
         /\ pc' = [pc EXCEPT ![w] =
                     IF r.kind = "Resolved" /\ r.route.route_type = "Internal"
                     THEN "exec" ELSE "done"]
  /\ UNCHANGED << state, lock, disk, handle, large_config, wbuf, events, nchanges,
                  wpc, wconf, wres, preState, published, req, snap,
                  pureVars, hopVars >>

\* hop, line 91: resolve_hop reads the index (line 160) and the default
\* route (line 182) of the State loaded; lines 93-104: a route to a local
\* program is run, anything else goes on to the response.
Resolve(w) ==
  /\ pc[w] = "resolve"
  /\ LET r == resolve_hop(req[w].query, snap[w].routes, snap[w].default_route)
     IN  /\ obs' = [obs EXCEPT ![w].routes = Some(snap[w].routes),
                               ![w].default_route = Some(snap[w].default_route)]
         /\ res' = [res EXCEPT ![w] = r]
         /\ pc' = [pc EXCEPT ![w] =
                     IF r.kind = "Resolved" /\ r.route.route_type = "Internal"
                     THEN "exec" ELSE "done"]
  /\ UNCHANGED << state, lock, disk, handle, large_config, wbuf, events, nchanges,
                  wpc, wconf, wres, preState, published, req, snap,
                  pureVars, hopVars >>

\* hop, line 98: resolve_path has run the program, however long that took;
\* the State loaded at line 89 is still held.
Exec(w) ==
  /\ pc[w] = "exec"
  /\ pc' = [pc EXCEPT ![w] = "done"]
  /\ UNCHANGED << state, lock, disk, handle, large_config, wbuf, events, nchanges,
                  wpc, wconf, wres, preState, published, req, obs, snap,
                  res, pureVars, hopVars >>

\* list, lines 68-75: a request arrives; the State is loaded and its groups
\* are read, in one expression.
ReadGroups(w) ==
  /\ pc[w] = "idle"
  /\ req' = [req EXCEPT ![w] = [kind |-> "list", query |-> << >>]]
  /\ LET s == load(published)
     IN  /\ snap' = [snap EXCEPT ![w] = s]
         /\ obs' = [obs EXCEPT ![w].groups = Some(s.groups)]
  /\ pc' = [pc EXCEPT ![w] = "done"]
  /\ UNCHANGED << state, lock, disk, handle, large_config, wbuf, events, nchanges,
                  wpc, wconf, wres, preState, published, res,
                  pureVars, hopVars >>

\* index and opensearch, lines 31-41 and 45-64: a request arrives; the
\* State is loaded and its public_address is read, in one expression.
ReadAddress(w) ==
  /\ pc[w] = "idle"
  /\ req' = [req EXCEPT ![w] = [kind |-> "index", query |-> << >>]]
  /\ LET s == load(published)
     IN  /\ snap' = [snap EXCEPT ![w] = s]
         /\ obs' = [obs EXCEPT ![w].public_address = Some(s.public_address)]
  /\ pc' = [pc EXCEPT ![w] = "done"]
  /\ UNCHANGED << state, lock, disk, handle, large_config, wbuf, events, nchanges,
                  wpc, wconf, wres, preState, published, res,
                  pureVars, hopVars >>

\* The handler returns: what it loaded is dropped.
Return(w) ==
  /\ pc[w] = "done"
  /\ pc' = [pc EXCEPT ![w] = "idle"]
  /\ req' = [req EXCEPT ![w] = NoReq]
  /\ obs' = [obs EXCEPT ![w] = NoObs]
  /\ snap' = [snap EXCEPT ![w] = NoState]
  /\ res' = [res EXCEPT ![w] = Unresolved]
  /\ UNCHANGED << state, lock, disk, handle, large_config, wbuf, events, nchanges,
                  wpc, wconf, wres, preState, published, pureVars, hopVars >>

Next ==
  \/ FsWrite
  \/ FsCreate
  \/ FsRemove
  \/ W_Begin
  \/ W_Lock
  \/ W_Measure
  \/ W_Read
  \/ W_ReadRest
  \/ W_Set
  \/ W_Publish
  \/ W_Unlock
  \/ \E w \in Workers : Load(w)
  \/ \E w \in Workers : Resolve(w)
  \/ \E w \in Workers : Exec(w)
  \/ \E w \in Workers : ReadGroups(w)
  \/ \E w \in Workers : ReadAddress(w)
  \/ \E w \in Workers : Return(w)

Spec == Init /\ [][Next]_vars

(***************************************************************************)
(* Claims about the State and its readers, checked under Spec.             *)
(***************************************************************************)
StateFields == {"public_address", "default_route", "routes", "groups"}

\* Every field the handler has read so far is that field of snapshot s.
ObservedFrom(o, s) ==
  \A f \in StateFields : IsSome(o[f]) => Unwrap(o[f]) = s[f]

C2_RoutesDerivedFromGroups ==
  ~ lock.writer => state.routes = cache_routes(state.groups)

\* The State is that of a reload that changed it, a later reload has
\* failed, and the lock is free.
C2_Witness ==
  /\ wpc = "idle"
  /\ wres = "Err"
  /\ ~ lock.writer
  /\ state # published[1]
  /\ state.routes # published[1].routes

ReloadErrors == {"Io", "Parse", "ConfigTooLarge", "ZeroByteConfig"}

\* C3: when a reload fails (unreadable or unparsable configuration, oversize
\* or zero-byte file), the State is exactly what it was when the event
\* arrived, all four fields, and the callback lets go of the lock; a failed
\* reload never empties the active configuration.  The same holds when the
\* callback panics (the file cannot be reopened, no descriptor for
\* try_clone).
C3_FailedReloadKeepsState ==
  /\ wres \in ReloadErrors \cup {"Err"} => state = preState
  /\ wres = "Err" => ~ lock.writer
  /\ wpc = "dead" => (state = preState /\ ~ lock.writer)

\* An oversize file has just failed to load, after an earlier reload had
\* changed the State.
C3_Witness ==
  /\ wpc = "unlock"
  /\ wres = "ConfigTooLarge"
  /\ state # published[1]
  /\ state # NoState

(***************************************************************************)
(* The functions on their own: resolve_hop, check_route and cache_routes   *)
(* applied to inputs drawn from bounded sets, and run()'s path from a      *)
(* document to the index that resolve_hop is given.                        *)
(***************************************************************************)
\* g is a URL template, d a program on the disk.
PathOf(kw) == IF kw = KwG THEN << "https://g/", "{{query}}" >> ELSE << "/bin/x" >>

ValidRanges ==
  { b \in ArgBounds \X ArgBounds : ValidArgRange(b[1], b[2]) }

\* The indexes a loaded configuration can give: any keywords, each with any
\* argument range that deserialization accepts.
Indexes ==
  UNION { { [kw \in K |-> Route(get_route_type(PathOf(kw)), PathOf(kw),
                               b[kw][1], b[kw][2])] :
              b \in [K -> ValidRanges] } : K \in SUBSET Keywords }

Defaults == {None} \cup { Some(kw) : kw \in Keywords \cup {KwA} }

\* check_route's tests build any Route, also one with min_args > max_args.
CheckBounds == {None} \cup { Some(n) : n \in 0..MaxCount }
CheckRoutes ==
  { Route("External", << >>, mn, mx) : mn \in CheckBounds, mx \in CheckBounds }

GroupPaths == { << "p1" >>, << "p2" >>, << "p3" >> }
GroupPool ==
  UNION { { RouteGroup("x", [kw \in K |-> Route("External", p[kw], None, None)]) :
              p \in [K -> GroupPaths] } : K \in SUBSET Keywords }
GroupSeqs == SeqsUpTo(GroupPool, MaxGroups)

SysQuiet == SysInitFrom("A", FALSE)

InitPure ==
  /\ SysQuiet
  /\ HopIdle
  /\ in_query = << >>
  /\ out = "none"
  /\ \/ /\ ppc = "ready"
        /\ in_routes \in Indexes
        /\ in_default \in Defaults
        /\ in_groups = << >>
     \/ /\ ppc \in {"file", "check", "handle", "page"}
        /\ in_routes = EmptyMap
        /\ in_default = None
        /\ in_groups = << >>
     \/ /\ ppc = "groups"
        /\ in_routes = EmptyMap
        /\ in_default = None
        /\ in_groups \in GroupSeqs

\* main.rs run(), lines 65-71: a document is loaded and its index built.
P_Load ==
  /\ ppc = "file"
  /\ \E d \in DocIds :
       LET r == parse_document(d)
       IN  /\ r.ok
           /\ in_groups' = r.val.groups
           /\ in_routes' = NewState(r.val).routes
           /\ in_default' = NewState(r.val).default_route
  /\ ppc' = "ready"
  /\ UNCHANGED << in_query, out, sysVars, hopVars >>

\* routes.rs hop, line 91.
P_Resolve ==
  /\ ppc = "ready"
  /\ \E q \in Queries :
       /\ in_query' = q
       /\ out' = resolve_hop(q, in_routes, in_default)
  /\ ppc' = "resolved"
  /\ UNCHANGED << in_routes, in_default, in_groups, sysVars, hopVars >>

\* routes.rs check_route.
P_Check ==
  /\ ppc = "check"
  /\ \E r \in CheckRoutes, n \in 0..MaxCount :
       out' = [route |-> r, arg_count |-> n, ok |-> check_route(r, n)]
  /\ ppc' = "checked"
  /\ UNCHANGED << in_routes, in_default, in_query, in_groups, sysVars, hopVars >>

\* main.rs cache_routes.
P_Cache ==
  /\ ppc = "groups"
  /\ out' = cache_routes(in_groups)
  /\ ppc' = "cached"
  /\ UNCHANGED << in_routes, in_default, in_query, in_groups, sysVars, hopVars >>

\* Files of every content on both sides of the size limits.
SizedFiles ==
  {EmptyFile}
    \cup { [len |-> n, kind |-> k] :
             n \in {1, LARGE_FILE_SIZE_THRESHOLD, LARGE_FILE_SIZE_THRESHOLD + 1},
             k \in ContentKinds }

\* config.rs load_file on a handle that was just opened.
P_LoadFile ==
  /\ ppc = "handle"
  /\ \E f \in SizedFiles, large \in BOOLEAN :
       \E r \in load_file([file |-> f, pos |-> 0, live |-> TRUE], large) :
          out' = [file |-> f, large |-> large, result |-> r]
  /\ ppc' = "loaded"
  /\ UNCHANGED << in_routes, in_default, in_query, in_groups, sysVars, hopVars >>

PageNames == {"index", "opensearch", "list"}

\* routes.rs index, opensearch and list (lines 35-41, 49-64 and 72-75): the
\* response for what render returned.
P_Page ==
  /\ ppc = "page"
  /\ \E name \in PageNames :
       \E r \in render(name) :
          out' = [name |-> name, rendered |-> r, response |-> page(r)]
  /\ ppc' = "paged"
  /\ UNCHANGED << in_routes, in_default, in_query, in_groups, sysVars, hopVars >>

NextPure == P_Load \/ P_Resolve \/ P_Check \/ P_Cache \/ P_LoadFile \/ P_Page

SpecPure == InitPure /\ [][NextPure]_vars

(***************************************************************************)
(* Claims about the functions, checked under SpecPure.                     *)
(***************************************************************************)
\* The argument range of a route, as the specification words it: both
\* bounds inclusive, an absent bound no constraint.
Accepts(route, n) ==
  /\ (route.min_args = None \/ n >= route.min_args[1])
  /\ (route.max_args = None \/ n <= route.max_args[1])

\* Tokens with one space between neighbours, built from the right.
RECURSIVE SingleSpaced(_)
SingleSpaced(ts) ==
  IF ts = << >> THEN << >>
  ELSE IF Len(ts) = 1 THEN ts[1]
  ELSE SingleSpaced(SubSeq(ts, 1, Len(ts) - 1)) \o << " " >> \o ts[Len(ts)]

\* The tokens of a query: its maximal runs of non-whitespace characters,
\* the k-th running from the k-th start of a run to the k-th end of one.
RunStarts(q) ==
  { i \in 1..Len(q) : q[i] \notin Whitespace /\ (i = 1 \/ q[i - 1] \in Whitespace) }
RunEnds(q) ==
  { j \in 1..Len(q) : q[j] \notin Whitespace /\ (j = Len(q) \/ q[j + 1] \in Whitespace) }
Kth(S, k) == CHOOSE x \in S : Cardinality({ y \in S : y <= x }) = k
Tokens(q) ==
  [k \in 1..Cardinality(RunStarts(q)) |->
     SubSeq(q, Kth(RunStarts(q), k), Kth(RunEnds(q), k))]

\* The first token is a keyword of the index and its route accepts the
\* number of tokens after it.
DirectHit(ts, routes) ==
  /\ ts # << >>
  /\ ts[1] \in DOMAIN routes
  /\ Accepts(routes[ts[1]], Len(ts) - 1)

\* The default route is set, is a keyword of the index and its route accepts
\* the number of all tokens.
DefaultHit(ts, routes, default_route) ==
  /\ default_route # None
  /\ default_route[1] \in DOMAIN routes
  /\ Accepts(routes[default_route[1]], Len(ts))

\* C6: when the first token of a query is a keyword of the index whose
\* argument range accepts the number of remaining tokens, resolve_hop
\* returns that keyword's route with the remaining tokens joined by single
\* spaces (the empty string if there are none), whatever default_route is.
C6_DirectMatchWins ==
  ppc = "resolved" =>
     LET ts == Tokens(in_query)
     IN  DirectHit(ts, in_routes) =>
            out = Resolved(in_routes[ts[1]], SingleSpaced(Tail(ts)))

\* g is matched with one argument although d, the default route, is in the
\* index and would accept the query as well.
C6_Witness ==
  /\ ppc = "resolved"
  /\ Tokens(in_query) = << KwG, KwD >>
  /\ DirectHit(Tokens(in_query), in_routes)
  /\ DefaultHit(Tokens(in_query), in_routes, in_default)
  /\ in_default = Some(KwD)
  /\ out.route = in_routes[KwG]
  /\ out.args = KwD

\* C7: when the query has a token, its first token is not a keyword of the
\* index or is one whose range rejects the remaining count, and
\* default_route is a keyword of the index whose range accepts the total
\* token count, resolve_hop returns the default route with all tokens, the
\* first included, joined by single spaces.
C7_DefaultGetsWholeQuery ==
  ppc = "resolved" =>
     LET ts == Tokens(in_query)
     IN  (/\ ts # << >>
          /\ ~ DirectHit(ts, in_routes)
          /\ DefaultHit(ts, in_routes, in_default)) =>
            out = Resolved(in_routes[in_default[1]], SingleSpaced(ts))

\* g is in the index but rejects its one argument; the default route d gets
\* both tokens.
C7_Witness ==
  /\ ppc = "resolved"
  /\ Tokens(in_query) = << KwG, KwG >>
  /\ KwG \in DOMAIN in_routes
  /\ ~ DirectHit(Tokens(in_query), in_routes)
  /\ in_default = Some(KwD)
  /\ out.kind = "Resolved"
  /\ out.route = in_routes[KwD]
  /\ out.args = << "g", " ", "g" >>

\* C8: resolve_hop returns Unresolved exactly when the query has no token
\* (also when a default route would accept zero arguments), or when the
\* direct match is absent or rejected and the default route is unset, names
\* a keyword missing from the index or rejects the total count.  An empty
\* index resolves nothing, and a document whose default_route names a
\* missing keyword loads.
C8_UnresolvedExactly ==
  ppc = "resolved" =>
     LET ts == Tokens(in_query)
     IN  /\ out = Unresolved <=>
              \/ ts = << >>
              \/ /\ ~ DirectHit(ts, in_routes)
                 /\ ~ DefaultHit(ts, in_routes, in_default)
         /\ in_routes = EmptyMap => out = Unresolved

\* A loaded document's default route names a keyword that is not in its
\* index, and a query that matches no keyword is Unresolved.
C8_Witness ==
  /\ ppc = "resolved"
  /\ in_groups # << >>
  /\ in_default = Some(KwA)
  /\ KwA \notin DOMAIN in_routes
  /\ Tokens(in_query) = << KwD, KwD >>
  /\ out = Unresolved

\* C9: check_route(route, n) is true exactly when min_args is absent or
\* n >= min_args, and max_args is absent or n <= max_args; a route with
\* neither bound accepts every count.
C9_CheckRouteInclusive ==
  ppc = "checked" =>
     /\ out.ok <=> Accepts(out.route, out.arg_count)
     /\ (out.route.min_args = None /\ out.route.max_args = None) => out.ok

\* A count on the upper bound of a two-sided range is accepted.
C9_Witness ==
  /\ ppc = "checked"
  /\ out.route.min_args = Some(2)
  /\ out.route.max_args = Some(3)
  /\ out.arg_count = 3
  /\ out.ok

\* The last group of a sequence that defines keyword kw.
LastGroupWith(groups, kw) ==
  CHOOSE i \in DOMAIN groups :
     /\ kw \in DOMAIN groups[i].routes
     /\ \A j \in DOMAIN groups : kw \in DOMAIN groups[j].routes => j <= i

\* C10: cache_routes of a sequence of groups has the union of the groups'
\* keywords as its keys and maps each keyword to its route in the last
\* group that has it; an empty sequence gives an empty map.
C10_LastGroupWins ==
  ppc = "cached" =>
     /\ DOMAIN out = UNION { DOMAIN in_groups[i].routes : i \in DOMAIN in_groups }
     /\ \A kw \in DOMAIN out :
           out[kw] = in_groups[LastGroupWith(in_groups, kw)].routes[kw]
     /\ in_groups = << >> => out = EmptyMap

\* Two groups share g with different routes and only the first has d: g is
\* the second group's, d is kept.
C10_Witness ==
  /\ ppc = "cached"
  /\ Len(in_groups) = 2
  /\ DOMAIN in_groups[1].routes = {KwG, KwD}
  /\ DOMAIN in_groups[2].routes = {KwG}
  /\ in_groups[1].routes[KwG] # in_groups[2].routes[KwG]
  /\ out[KwG] = in_groups[2].routes[KwG]
  /\ out[KwD] = in_groups[1].routes[KwD]

\* C18: for every query, index and default route, a default route equal to
\* the first token included: when the first token is a keyword whose route
\* rejects the number of remaining tokens, that route is not tried again
\* with another slicing of the arguments; the result is the default route's
\* resolution, on all the tokens, or Unresolved.
C18_NoRetryOfMatched ==
  ppc = "resolved" =>
     LET ts == Tokens(in_query)
     IN  (/\ ts # << >>
          /\ ts[1] \in DOMAIN in_routes
          /\ ~ Accepts(in_routes[ts[1]], Len(ts) - 1)) =>
            out = IF DefaultHit(ts, in_routes, in_default)
                  THEN Resolved(in_routes[in_default[1]], SingleSpaced(ts))
                  ELSE Unresolved

\* g needs an argument and is also the default route: the bare keyword g is
\* rejected as a match and resolved by the default-route arm, which is given
\* the whole query.
C18_Witness ==
  /\ ppc = "resolved"
  /\ Tokens(in_query) = << KwG >>
  /\ KwG \in DOMAIN in_routes
  /\ in_routes[KwG].min_args = Some(1)
  /\ in_default = Some(KwG)
  /\ out = Resolved(in_routes[KwG], KwG)

\* C15: load_file decides on the byte length before it parses anything: a
\* length above the threshold with large_config unset gives ConfigTooLarge
\* carrying that length, whatever the content; otherwise a length of zero
\* gives ZeroByteConfig, also with large_config set; only a non-empty file
\* within the threshold, or any non-empty file with large_config set, is
\* read and parsed.  The two size errors differ from each other and from a
\* parse error.
C15_SizeBeforeParse ==
  ppc = "loaded" =>
     LET n == out.file.len
         r == out.result
         oversize == n > LARGE_FILE_SIZE_THRESHOLD /\ ~ out.large
     IN  /\ oversize =>
              (~ r.ok /\ r.err = "ConfigTooLarge" /\ r.payload = n)
         /\ (~ oversize /\ n = 0) => (~ r.ok /\ r.err = "ZeroByteConfig")
         /\ (~ oversize /\ n > 0) =>
              /\ r.ok \/ r.err \in {"Parse", "Io"}
              /\ r.ok <=> out.file.kind \in {"A", "B"}

\* A valid document longer than the threshold loads with large_config set.
C15_Witness ==
  /\ ppc = "loaded"
  /\ out.file.len > LARGE_FILE_SIZE_THRESHOLD
  /\ out.large
  /\ out.result.ok

(***************************************************************************)
(* hop on its own: one request taken from the query to the response, on    *)
(* an index and a default route drawn as a loaded configuration gives      *)
(* them, with every outcome of the program a route may name.               *)
(***************************************************************************)
MaxHopLen == 3            \* characters in the query of a hop

HopAlphabet == {"g", "d", " ", "&"}
HopInputs == SeqsUpTo(HopAlphabet, MaxHopLen)

\* Indexes whose routes have no upper bound.
HopIndexes == { r \in Indexes : \A kw \in DOMAIN r : r[kw].max_args = None }

InitHop ==
  /\ SysQuiet
  /\ HopIdle
  /\ ppc = "hop"
  /\ in_routes \in HopIndexes
  /\ in_default \in Defaults
  /\ in_query = << >>
  /\ in_groups = << >>
  /\ out = "none"

\* hop, line 91.
H_Resolve ==
  /\ ppc = "hop"
  /\ \E q \in HopInputs :
       /\ in_query' = q
       /\ out' = resolve_hop(q, in_routes, in_default)
  /\ ppc' = "matched"
  /\ UNCHANGED << in_routes, in_default, in_groups, sysVars, hopVars >>

\* hop, lines 133-137.
H_Unresolved ==
  /\ ppc = "matched"
  /\ out = Unresolved
  /\ response' = not_found
  /\ ppc' = "responded"
  /\ UNCHANGED << in_routes, in_default, in_query, in_groups, out, run, child,
                  hres, failed, sysVars >>

\* hop, lines 92-104: the route is a program and resolve_path runs it, or
\* the route is a template.
H_Template ==
  /\ ppc = "matched"
  /\ out # Unresolved
  /\ \E r \in (IF out.route.route_type = "Internal" THEN Runs ELSE {NoRun}) :
       LET t == resolved_template(out.route, out.args, r)
       IN  /\ run' = r
           /\ hres' = t.result
           /\ child' = t.child
  /\ ppc' = "template"
  /\ UNCHANGED << in_routes, in_default, in_query, in_groups, out, response,
                  failed, sysVars >>

\* hop, lines 106-131 and 137.
H_Respond ==
  /\ ppc = "template"
  /\ response' = respond(hres, out.args)
  /\ ppc' = "responded"
  /\ UNCHANGED << in_routes, in_default, in_query, in_groups, out, run, child,
                  hres, failed, sysVars >>

\* hop, line 138: the handler returns its response and the worker is free
\* for the next request.
H_Return ==
  /\ ppc = "responded"
  /\ failed' = (failed \/ response.status \in {404, 500})
  /\ ppc' = "hop"
  /\ in_query' = << >>
  /\ out' = "none"
  /\ run' = NoRun
  /\ child' = << >>
  /\ hres' = NoResult
  /\ response' = NoResponse
  /\ UNCHANGED << in_routes, in_default, in_groups, sysVars >>

NextHop == H_Resolve \/ H_Unresolved \/ H_Template \/ H_Respond \/ H_Return

SpecHop == InitHop /\ [][NextHop]_vars

(***************************************************************************)
(* Claims about hop and the Executor, checked under SpecHop.               *)
(***************************************************************************)
\* resolve_path has returned for this request.
Executed == ppc \in {"template", "responded"} /\ run # NoRun

\* C11: the child gets the residual args split on single spaces, one
\* process argument for each piece (the pieces, joined by single spaces,
\* are args, and no piece holds a space), and when args is the empty
\* string, as for a query that is only the matched keyword, the child gets
\* no extra argument at all.
C11_ArgsSplitOnSpaces ==
  (Executed /\ child # None) =>
     LET argv == child[1].argv
     IN  /\ SingleSpaced(argv) = out.args
         /\ \A i \in DOMAIN argv : \A j \in DOMAIN argv[i] : argv[i][j] # " "
         /\ out.args = << >> => argv = << >>

\* C12: when the child exits with a status other than zero, resolve_path
\* returns the CustomProgram error carrying its standard-error text,
\* whatever standard output holds, a well-formed body or redirect object
\* included; standard output is honoured only on exit status zero.
C12_NonZeroExitIsCustomProgram ==
  (Executed /\ child # None) =>
     /\ run.status # 0 =>
          /\ ~ hres.ok
          /\ hres.err = "CustomProgram"
          /\ Len(hres.payload) = Len(run.stderr)
          /\ \A i \in DOMAIN run.stderr :
                run.stderr[i] # "\\xFF" => hres.payload[i] = run.stderr[i]
     /\ hres.ok => run.status = 0

\* The child failed with text on standard error while its standard output
\* was a well-formed body object.
C12_Witness ==
  /\ Executed /\ child # None
  /\ run.status = 1
  /\ run.stdout = JObject(<< Member("body", JString(TextA)) >>)
  /\ run.stderr = << "e" >>
  /\ hres = ErrWith("CustomProgram", << "e" >>)

\* Standard output is a JSON object of the single member key, a string.
SingleKey(doc, key) ==
  /\ doc.json = "object"
  /\ Len(doc.members) = 1
  /\ doc.members[1].key = key
  /\ doc.members[1].value.type = "string"

\* C13: on exit status zero resolve_path returns Redirect(s) exactly when
\* standard output is a JSON object with the single key redirect and the
\* string value s, Body(s) exactly when it is one with the single key body
\* and the string value s, and in every other case (neither key, both keys,
\* a value that is no string, no valid document) the JsonParse error, a
\* kind other than CustomProgram.
C13_ZeroExitParsesStdout ==
  (Executed /\ child # None /\ run.status = 0) =>
     /\ SingleKey(run.stdout, "redirect") <=> (hres.ok /\ hres.val.kind = "Redirect")
     /\ SingleKey(run.stdout, "body") <=> (hres.ok /\ hres.val.kind = "Body")
     /\ hres.ok => hres.val.text = run.stdout.members[1].value.text
     /\ ~ hres.ok => (hres.err = "JsonParse" /\ hres.err # "CustomProgram")

\* The child succeeded with both keys in its object: a parse error.
C13_Witness ==
  /\ Executed /\ child # None
  /\ run.status = 0
  /\ run.stdout = JObject(<< Member("body", JString(TextA)),
                             Member("redirect", JString(TextA)) >>)
  /\ hres = Err("JsonParse")

\* C14: a child process is spawned only for a route classified Internal
\* whose path canonicalizes, and the program started is the canonical
\* path: a path that does not exist or cannot be reached gives an I/O error
\* with no process spawned, and a request that resolves to an External
\* route spawns none.
C14_SpawnOnlyCanonicalInternal ==
  (ppc \in {"template", "responded"}) =>
     IF out = Unresolved THEN child = None /\ run = NoRun
     ELSE /\ child # None =>
               /\ out.route.route_type = "Internal"
               /\ run.canonicalize = "ok"
               /\ Unwrap(child).program = run.canonical
          /\ (out.route.route_type = "Internal" /\ run.canonicalize # "ok") =>
               (child = None /\ ~ hres.ok /\ hres.err = "Io")
          /\ out.route.route_type = "External" => (child = None /\ run = NoRun)

\* The program of an Internal route has gone from the disk: no child, an
\* I/O error and an internal-error response.
C14_Witness ==
  /\ ppc = "responded"
  /\ run.canonicalize = "NotFound"
  /\ out.route.route_type = "Internal"
  /\ child = None
  /\ hres = ErrWith("Io", "NotFound")
  /\ response.status = 500

\* A template with every {{query}} replaced by the value.
RECURSIVE Substituted(_, _)
Substituted(template, value) ==
  IF template = << >> THEN << >>
  ELSE (IF Head(template) = "{{query}}" THEN value ELSE << Head(template) >>)
         \o Substituted(Tail(template), value)

\* The residual arguments, percent-encoded: a space becomes %20 and an
\* ampersand %26.
Encoded(args) ==
  [i \in DOMAIN args |->
     CASE args[i] = " " -> "%20" [] args[i] = "&" -> "%26" [] OTHER -> args[i]]

\* C20: for a request that resolves to an External route, the redirect
\* destination returned to the caller, the Location of the redirect
\* response, is the route's template with its query placeholder replaced by
\* the percent-encoded residual arguments: the rendered string, not the
\* template as stored.
C20_LocationIsRendered ==
  (ppc = "responded" /\ out # Unresolved) =>
     (out.route.route_type = "External" =>
        /\ response.status = 302
        /\ response.location = Some(Substituted(out.route.path, Encoded(out.args))))

Range(f) == { f[i] : i \in DOMAIN f }

\* A template that cannot be rendered: it holds an expression other than
\* the one for query.
Unrenderable(template) ==
  \E i \in DOMAIN template :
     /\ template[i] # "{{query}}"
     /\ template[i] \in {"{{other}}", "{{"}

\* C16: no outcome of a request stops the service: a request that is
\* Unresolved gets the not-found response, and one whose Executor call fails
\* (I/O error, non-zero exit, malformed JSON) or whose template does not
\* render or is refused as a header gets the internal-error response; the
\* published snapshot is as it was, the handler returns, and the next
\* request is taken.
C16_FailuresAreResponses ==
  /\ ppc = "responded" =>
       /\ out = Unresolved => response.status = 404
       /\ out # Unresolved =>
            /\ ~ hres.ok =>
                 (hres.err \in {"Io", "CustomProgram", "JsonParse"}
                    /\ response.status = 500)
            /\ (hres.ok /\ hres.val.kind = "Redirect"
                  /\ Unrenderable(hres.val.text)) => response.status = 500
            /\ (hres.ok /\ hres.val.kind = "Redirect"
                  /\ "\n" \in Range(hres.val.text)) => response.status = 500
       /\ response.status \in {200, 302, 404, 500}
       /\ state = published[Len(published)] /\ Len(published) = 1
       /\ ENABLED H_Return
  /\ ppc = "hop" => (state = published[1] /\ ENABLED H_Resolve)

\* After a request that got a failure response, a program's redirect whose
\* template does not render gets the internal-error response.
C16_Witness ==
  /\ failed
  /\ ppc = "responded"
  /\ run.status = 0
  /\ hres = Ok(Redirect(TextUnclosed))
  /\ response.status = 500

(***************************************************************************)
(* Claims about reloads, checked under Spec.                               *)
(***************************************************************************)
\* Every route of a State, in its index and in its groups, has
\* min_args <= max_args when it has both.
RangesOrdered(st) ==
  /\ \A kw \in DOMAIN st.routes :
        LET r == st.routes[kw]
        IN  (r.min_args # None /\ r.max_args # None) => r.min_args[1] <= r.max_args[1]
  /\ \A i \in DOMAIN st.groups : \A kw \in DOMAIN st.groups[i].routes :
        LET r == st.groups[i].routes[kw]
        IN  (r.min_args # None /\ r.max_args # None) => r.min_args[1] <= r.max_args[1]

\* C17: after startup and after any sequence of reloads, every route of the
\* State that has both bounds has min_args <= max_args, also in the middle
\* of the four assignments and whatever was written to the file while it
\* was read: a document with a route whose min_args is above its max_args
\* fails to load as a whole and no part of it is installed.
C17_StateRangesOrdered ==
  /\ RangesOrdered(state)
  /\ state.public_address # RawDocR.public_address

\* After an earlier reload has changed the State, the callback has read, from
\* its start, a document with min_args = 1 and max_args = 0; the parse has
\* refused it and the State is as it was.
C17_Witness ==
  /\ wpc = "unlock"
  /\ wres = "Parse"
  /\ lock.writer
  /\ handle.live
  /\ handle.file.kind = "R"
  /\ handle.pos = handle.file.len
  /\ events = << >>
  /\ state # published[1]

\* A file that load_file loads when read from its start.
Loadable(file) ==
  /\ file # Absent
  /\ \A r \in load_file([file |-> file, pos |-> 0, live |-> TRUE], large_config) : r.ok

\* C19: reload can be retried: once the callback has handled every event
\* delivered and the file at the path is a valid configuration (its last
\* change was a write or a create), the State is that file's configuration,
\* however many earlier reloads failed; and no failed reload ends the
\* handling of later events.
C19_ReloadRetryable ==
  /\ wpc # "dead"
  /\ (wpc = "idle" /\ events = << >> /\ Loadable(disk)) =>
        state = NewState(parse_document(disk.kind).val)

=============================================================================
